---- MODULE Spec2Model ----
(***************************************************************************)
(* MatrixScene (src/src/scenes/MatrixScene.tsx): the memory-access-pattern *)
(* simulation that drives the instanced grid.                              *)
(*                                                                         *)
(* Units.  Clock times are integers in milliseconds (state.clock           *)
(* .elapsedTime * 1000), so Math.floor(time * k) is (k * t) \div 1000.     *)
(* Colour components are integers in 1/10000 (1.0 = 10000); with times in  *)
(* milliseconds every colour the code computes is then an exact integer.   *)
(* World positions are integers in 1/100 (spacing 0.18 = 18).              *)
(*                                                                         *)
(* setCurrentPattern is modelled as taking effect before the next frame    *)
(* callback: React re-renders the component, and the re-registered         *)
(* callback closes over the new currentPattern.                            *)
(***************************************************************************)
EXTENDS Integers, Sequences, FiniteSets

\* ------------------------------------------------------------------ bounds

\* Last clock time (ms) at which a frame callback is explored.
MaxTime == 2100

\* Largest rows and largest cols of the grids whose construction is explored.
MaxDim == 6

\* Last clock time (ms) explored at millisecond resolution (SpecFine).
MaxClock == 6100

\* Grids (rows, cols) the simulation is explored on: the 16-cell grid of the
\* stride example, a grid of two 4x4 blocks side by side, and grids whose
\* sides are not multiples of 4 (5x4 clips a block at the bottom edge, 3x6 at
\* the right edge, 2x3 is smaller than one block).
Shapes == { <<4, 4>>, <<4, 8>>, <<5, 4>>, <<3, 6>>, <<2, 3>> }

\* Time between two frame callbacks (ms): a steady frame, a slow frame, and a
\* stall of 1.5 s (the clock runs on while no frame is delivered).
Deltas == { 100, 350, 1500 }

\* Grids whose construction is explored.
AllShapes == (1 .. MaxDim) \X (1 .. MaxDim)

\* The grid and the frame spacing (ms) of the millisecond-resolution exploration,
\* whose first frame callback runs at any clock time up to MaxClock.  On the 1x5
\* grid the last cell lies outside the only block, so cells of every age occur.
FineShapes == { <<1, 5>> }

FineDeltas == { 2000 }

\* The grid, the frame spacing (ms) and the last clock time of the exploration
\* of pointer events between ticks.
PickShapes == { <<2, 3>> }

PickDeltas == { 350 }

MaxPickTime == 1050

\* The grid, the frame spacings (ms, none above 0.1 s) and the last clock time
\* of the exploration of steady schedules.
SteadyShapes == { <<2, 3>> }

SteadyDeltas == { 50, 100 }

MaxSteadyTime == 2100

\* The grid App renders, and a steady schedule for it: the first frame at
\* 0.1 s, then one frame every 0.2 s (no tick passes the Random gate), up to the
\* last clock time explored.
CoverShapes == { <<24, 32>> }

CoverFirst == { 100 }

CoverDeltas == { 200 }

MaxCoverTime == 4100

\* The time (ms) after which the pattern window and the block index of a
\* 768-cell grid repeat: floor(2t) mod 4 repeats after 2 s and
\* floor((3t) mod 48) after 16 s.
BlockCycle == 16000

\* gl.domElement.getBoundingClientRect() and the (clientX, clientY) of the
\* pointer events explored: a corner of the surface and a point inside it.
CanvasRect == [ left |-> 2, top |-> 1, width |-> 8, height |-> 6 ]

ClientPoints == { << 2, 1 >>, << 7, 4 >> }

\* ------------------------------------------------------- program constants

blockSize == 4

stride == 4

patterns == << "Sequential", "Random", "Block", "Stride" >>

VARIABLES
  rows,            \* prop rows
  cols,            \* prop cols
  phase,           \* "build": inside the matrixData loops; "ready": rendered
  row,             \* loop variable of the outer loop
  col,             \* loop variable of the inner loop
  matrixData,      \* the cell records, array position i at matrixData[i + 1]
  meshReady,       \* meshRef.current is set
  currentPattern,  \* React state shown in the title
  time,            \* state.clock.elapsedTime at the latest frame callback
  instanceMatrix,  \* per-instance transform buffer, <<>> before the first write
  instanceColor,   \* per-instance colour buffer, <<>> (null) before the first write
  ranPattern,      \* patternIndex of the tick the latest step executed, -1 if none
  picked,          \* randomIndex the latest step picked, -1 if none
  published,       \* name the latest step passed to setCurrentPattern, "none" if none
  lastPublished,   \* name of the latest setCurrentPattern call before this step
  onHover,         \* prop onHover is supplied
  hover,           \* latest value passed to onHover, by kind: "unset" before
                   \* the first call, "null", or "cell" with {row, col, x, y}
  mouse,           \* the Vector2 mouse, << x * rect.width, y * rect.height >>
  pointer,         \* the pointer event the latest step handled and what its
                   \* handler did, "none" if the step was no pointer event
  seqTarget,       \* currentIndex of the latest Sequential tick, -1 before it
  covered          \* the blockIndex values of the Block ticks so far

vars == << rows, cols, phase, row, col, matrixData, meshReady, currentPattern,
           time, instanceMatrix, instanceColor, ranPattern, picked, published,
           lastPublished, onHover, hover, mouse, pointer, seqTarget, covered >>

\* ------------------------------------------------------------ arithmetic

\* The value of hover before onHover was ever called, and of pointer after a
\* step that was no pointer event.
HoverUnset == [ kind |-> "unset", row |-> -1, col |-> -1, x |-> -1, y |-> -1 ]

NoPointer ==
  [ kind |-> "none", x |-> -1, y |-> -1, hit |-> [ kind |-> "miss", id |-> -1 ],
    calls |-> 0, threw |-> FALSE, prev |-> HoverUnset ]

\* JavaScript's % on integers: the result has the sign of the dividend.
JsRem(a, b) == IF a >= 0 THEN a % b ELSE 0 - ((0 - a) % b)

Min(a, b) == IF a <= b THEN a ELSE b

totalCells == rows * cols

\* ------------------------------------------------------- grid construction

\* NewCell with the index computed from the number of rows.
NewCellRowStride(r, c) ==
  [ index |-> r * rows + c,
    row |-> r,
    col |-> c,
    x |-> (2 * c - cols) * 9,
    y |-> (rows - 2 * r) * 9,
    z |-> 0,
    baseColor |-> 20,
    accessTime |-> 0,
    isAccessed |-> FALSE ]

\* The record pushed for (r, c).
NewCell(r, c) ==
  [ index |-> r * cols + c,
    row |-> r,
    col |-> c,
    x |-> (2 * c - cols) * 9,
    y |-> (rows - 2 * r) * 9,
    z |-> 0,
    baseColor |-> 20,
    accessTime |-> 0,
    isAccessed |-> FALSE ]

\* One step of the nested loops of the matrixData memo.
BuildStep ==
  /\ phase = "build"
  /\ IF row >= rows
       THEN /\ phase' = "ready"
            /\ UNCHANGED << row, col, matrixData >>
       ELSE IF col >= cols
         THEN /\ row' = row + 1
              /\ col' = 0
              /\ UNCHANGED << phase, matrixData >>
         ELSE /\ matrixData' = Append(matrixData, NewCell(row, col))
              /\ col' = col + 1
              /\ UNCHANGED << phase, row >>
  /\ pointer' = NoPointer
  /\ UNCHANGED << rows, cols, meshReady, currentPattern, time, instanceMatrix,
                  instanceColor, ranPattern, picked, published, lastPublished,
                  onHover, hover, mouse, seqTarget, covered >>

\* React attaches the instanced mesh to meshRef when it commits the render.
AttachMesh ==
  /\ phase = "ready"
  /\ ~meshReady
  /\ meshReady' = TRUE
  /\ ranPattern' = -1
  /\ picked' = -1
  /\ published' = "none"
  /\ lastPublished' = IF published # "none" THEN published ELSE lastPublished
  /\ pointer' = NoPointer
  /\ UNCHANGED << rows, cols, phase, row, col, matrixData, currentPattern, time,
                  instanceMatrix, instanceColor, onHover, hover, mouse, seqTarget,
                  covered >>

\* --------------------------------------------------------- the frame callback

\* patternIndex with the cycle cut to three patterns.
patternIndexThree(t) == ((t * 2) \div 1000) % 3

patternIndex(t) == ((t * 2) \div 1000) % 4

\* Math.floor((time * 10) % totalCells)
currentIndex(t) == ((t * 10) % (1000 * totalCells)) \div 1000

\* Math.floor(time * 5) !== Math.floor((time - 0.016) * 5)
RandomGate(t) == ((t * 5) \div 1000) # (((t - 16) * 5) \div 1000)

\* Math.floor((time * 3) % (totalCells / (blockSize * blockSize))), both sides
\* of % scaled by 1000 * blockSize * blockSize.
blockIndex(t) ==
  ((t * 3 * blockSize * blockSize) % (1000 * totalCells))
     \div (1000 * blockSize * blockSize)

\* Math.floor(blockIndex / (cols / blockSize)) * blockSize
startRow(t) == ((blockIndex(t) * blockSize) \div cols) * blockSize

\* (blockIndex % (cols / blockSize)) * blockSize
startCol(t) == (blockIndex(t) * blockSize) % cols

\* Math.floor((time * 8) % stride)
startIndex(t) == ((t * 8) % (1000 * stride)) \div 1000

\* An assignment that also resets the access time of a cell it does not
\* select.
AccessForgetting(cell, hit, t) ==
  [ cell EXCEPT !.isAccessed = hit,
                !.accessTime = IF hit THEN t ELSE 0 ]

\* cell.isAccessed = hit; if (hit) cell.accessTime = time
Access(cell, hit, t) ==
  [ cell EXCEPT !.isAccessed = hit,
                !.accessTime = IF hit THEN t ELSE cell.accessTime ]

\* SequentialAccess that sets the target and leaves the other cells alone.
SequentialAccessNoReset(data, t) ==
  [ data EXCEPT ![currentIndex(t) + 1] =
      [ @ EXCEPT !.isAccessed = TRUE, !.accessTime = t ] ]

SequentialAccess(data, t) ==
  [ k \in DOMAIN data |-> Access(data[k], (k - 1) = currentIndex(t), t) ]

\* RandomAccess that resets the other cells, as the other three patterns do.
RandomAccessReset(data, t, randomIndex) ==
  [ k \in DOMAIN data |-> Access(data[k], (k - 1) = randomIndex, t) ]

\* matrixData[randomIndex].isAccessed = true; .accessTime = time
RandomAccess(data, t, randomIndex) ==
  [ data EXCEPT ![randomIndex + 1] =
      [ @ EXCEPT !.isAccessed = TRUE, !.accessTime = t ] ]

\* BlockHit without the lower edge of the block.
BlockHitOpenBelow(cell, t) ==
  /\ cell.row >= startRow(t)
  /\ cell.col >= startCol(t)
  /\ cell.col < startCol(t) + blockSize

BlockHit(cell, t) ==
  /\ cell.row >= startRow(t)
  /\ cell.row < startRow(t) + blockSize
  /\ cell.col >= startCol(t)
  /\ cell.col < startCol(t) + blockSize

BlockAccess(data, t) ==
  [ k \in DOMAIN data |-> Access(data[k], BlockHit(data[k], t), t) ]

\* StrideHit that ignores the phase of the stride.
StrideHitNoPhase(i, t) ==
  /\ JsRem(i, stride) = 0
  /\ i >= startIndex(t)

StrideHit(i, t) ==
  /\ JsRem(i - startIndex(t), stride) = 0
  /\ i >= startIndex(t)

\* Stride tick that sets the flags of its cells and resets no other flag.
StrideAccessKeeping(data, t) ==
  [ k \in DOMAIN data |->
      IF StrideHit(k - 1, t) THEN Access(data[k], TRUE, t) ELSE data[k] ]

StrideAccess(data, t) ==
  [ k \in DOMAIN data |-> Access(data[k], StrideHit(k - 1, t), t) ]

\* CellColor with the second branch made continuous with the first.
CellColorSmooth(cell, t) ==
  LET timeSinceAccess == t - cell.accessTime
  IN  IF cell.isAccessed
        THEN << 10000, 2000, 2000 >>
        ELSE IF timeSinceAccess < 1000
          THEN << 10000 - timeSinceAccess * 8, 2000, 2000 + timeSinceAccess * 6 >>
          ELSE IF timeSinceAccess < 5000
            THEN << 2000, 2000,
                    8000 - (Min(4000, timeSinceAccess - 1000) * 4000) \div 4000 >>
            ELSE << 3000, 3000, 4000 >>

\* The colour of a cell at time t, components in 1/10000.
CellColor(cell, t) ==
  LET timeSinceAccess == t - cell.accessTime
  IN  IF cell.isAccessed
        THEN << 10000, 2000, 2000 >>
        ELSE IF timeSinceAccess < 1000
          THEN << 10000 - timeSinceAccess * 8, 2000, 2000 + timeSinceAccess * 6 >>
          ELSE IF timeSinceAccess < 5000
            THEN << 2000, 3000,
                    8000 - (Min(4000, timeSinceAccess - 1000) * 4000) \div 4000 >>
            ELSE << 3000, 3000, 4000 >>

\* tempObject's matrix for a cell: its translation and the uniform scale cellSize.
CellMatrix(cell) == << cell.x, cell.y, cell.z, 15 >>

\* The body of the frame callback at clock time t once meshRef.current is set;
\* data is matrixData after the access-pattern branch.
Render(data, t) ==
  /\ matrixData' = data
  /\ instanceMatrix' = [ k \in DOMAIN data |-> CellMatrix(data[k]) ]
  /\ instanceColor' = [ k \in DOMAIN data |-> CellColor(data[k], t) ]

NewPattern(t) == patterns[patternIndex(t) + 1]

\* Publish without the comparison: setCurrentPattern is called on every tick.
PublishAlways(t) ==
  /\ published' = NewPattern(t)
  /\ currentPattern' = NewPattern(t)
  /\ lastPublished' = IF published # "none" THEN published ELSE lastPublished

\* Publish whose update is lost when the cycle wraps around to Sequential.
PublishNoWrap(t) ==
  /\ published' = IF NewPattern(t) # currentPattern THEN NewPattern(t) ELSE "none"
  /\ currentPattern' = IF patternIndex(t) = 0 THEN currentPattern ELSE NewPattern(t)
  /\ lastPublished' = IF published # "none" THEN published ELSE lastPublished

Publish(t) ==
  /\ published' = IF NewPattern(t) # currentPattern THEN NewPattern(t) ELSE "none"
  /\ currentPattern' = NewPattern(t)
  /\ lastPublished' = IF published # "none" THEN published ELSE lastPublished

\* The meshRef guard with the test dropped: the callback never returns early.
MeshMissingNever == FALSE

\* if (!meshRef.current) return
MeshMissing == ~meshReady

\* The frame callback at clock time t.
Tick(t) ==
  /\ time' = t
  /\ pointer' = NoPointer
  /\ IF MeshMissing
       THEN /\ ranPattern' = -1
            /\ picked' = -1
            /\ published' = "none"
            /\ lastPublished' = IF published # "none" THEN published ELSE lastPublished
            /\ UNCHANGED << matrixData, currentPattern, instanceMatrix, instanceColor,
                            seqTarget, covered >>
       ELSE LET p == patternIndex(t)
            IN  /\ ranPattern' = p
                /\ Publish(t)
                /\ seqTarget' = IF p = 0 THEN currentIndex(t) ELSE seqTarget
                /\ covered' = IF p = 2 THEN covered \cup { blockIndex(t) } ELSE covered
                /\ IF p = 0
                     THEN /\ picked' = -1
                          /\ Render(SequentialAccess(matrixData, t), t)
                     ELSE IF p = 1
                       THEN IF RandomGate(t)
                              THEN \E randomIndex \in 0 .. (totalCells - 1) :
                                     /\ picked' = randomIndex
                                     /\ Render(RandomAccess(matrixData, t, randomIndex), t)
                              ELSE /\ picked' = -1
                                   /\ Render(matrixData, t)
                       ELSE IF p = 2
                         THEN /\ picked' = -1
                              /\ Render(BlockAccess(matrixData, t), t)
                         ELSE /\ picked' = -1
                              /\ Render(StrideAccess(matrixData, t), t)
  /\ UNCHANGED << rows, cols, phase, row, col, meshReady, onHover, hover, mouse >>

\* One frame callback, d ms after the previous one.
Frame(d) ==
  /\ phase = "ready"
  /\ Tick(time + d)

\* ------------------------------------------------------------ pointer events

\* What raycaster.intersectObject(meshRef.current) can hold first: nothing
\* ("miss"), or a hit whose instanceId is undefined or a number (id).  The ray
\* cast is three.js code; the ids explored run one below and one above the grid.
Hits ==
  { [ kind |-> "miss", id |-> -1 ], [ kind |-> "undefined", id |-> -1 ] }
    \cup { [ kind |-> "instance", id |-> i ] : i \in -1 .. totalCells }

\* onHover(null)
HoverNull == [ kind |-> "null", row |-> -1, col |-> -1, x |-> -1, y |-> -1 ]

\* A hover result that carries the normalised pointer position instead of the
\* event's own coordinates.
HoverResultNormalised(instanceId, clientX, clientY) ==
  [ kind |-> "cell",
    row |-> matrixData[instanceId + 1].row,
    col |-> matrixData[instanceId + 1].col,
    x |-> 2 * (clientX - CanvasRect.left) - CanvasRect.width,
    y |-> CanvasRect.height - 2 * (clientY - CanvasRect.top) ]

\* The record handed to onHover for instance instanceId.
HoverResult(instanceId, clientX, clientY) ==
  [ kind |-> "cell",
    row |-> matrixData[instanceId + 1].row,
    col |-> matrixData[instanceId + 1].col,
    x |-> clientX,
    y |-> clientY ]

\* What one run of a pointer handler did: the event, the number of onHover
\* calls, whether it threw, and the hover result that stood before it.
PointerEvent(kind, clientX, clientY, hit, calls, threw) ==
  [ kind |-> kind, x |-> clientX, y |-> clientY, hit |-> hit, calls |-> calls,
    threw |-> threw, prev |-> hover ]

\* The branch intersects.length > 0: matrixData[instanceId] is undefined for a
\* negative instanceId, and reading its row throws.
HoverOnHit(hit, clientX, clientY) ==
  IF hit.kind = "instance" /\ hit.id < Len(matrixData)
    THEN IF hit.id >= 0
           THEN /\ hover' = HoverResult(hit.id, clientX, clientY)
                /\ pointer' = PointerEvent("move", clientX, clientY, hit, 1, FALSE)
           ELSE /\ hover' = hover
                /\ pointer' = PointerEvent("move", clientX, clientY, hit, 0, TRUE)
    ELSE /\ hover' = hover
         /\ pointer' = PointerEvent("move", clientX, clientY, hit, 0, FALSE)

\* What every pointer event leaves alone.
PointerFrame ==
  /\ ranPattern' = -1
  /\ picked' = -1
  /\ published' = "none"
  /\ lastPublished' = IF published # "none" THEN published ELSE lastPublished
  /\ UNCHANGED << rows, cols, phase, row, col, meshReady, currentPattern, time,
                  instanceMatrix, instanceColor, onHover, seqTarget, covered >>

\* handlePointerMove that also marks the hovered cell as accessed.
handlePointerMoveTouching(clientX, clientY, hit) ==
  /\ phase = "ready"
  /\ meshReady
  /\ PointerFrame
  /\ mouse' = mouse
  /\ pointer' = PointerEvent("move", clientX, clientY, hit, 1, FALSE)
  /\ IF hit.kind = "instance" /\ hit.id >= 0 /\ hit.id < Len(matrixData)
       THEN /\ hover' = HoverResult(hit.id, clientX, clientY)
            /\ matrixData' = [ matrixData EXCEPT ![hit.id + 1].isAccessed = TRUE ]
       ELSE /\ hover' = HoverNull
            /\ matrixData' = matrixData

\* handlePointerMove for an event at (clientX, clientY) whose ray gives hit.
\* The group that carries the handler exists once React has committed it,
\* which is when meshRef is set.
handlePointerMove(clientX, clientY, hit) ==
  /\ phase = "ready"
  /\ meshReady
  /\ PointerFrame
  /\ matrixData' = matrixData
  /\ IF ~onHover
       THEN /\ pointer' = PointerEvent("move", clientX, clientY, hit, 0, FALSE)
            /\ UNCHANGED << hover, mouse >>
       ELSE /\ mouse' = << 2 * (clientX - CanvasRect.left) - CanvasRect.width,
                           CanvasRect.height - 2 * (clientY - CanvasRect.top) >>
            /\ IF meshReady
                 THEN IF hit.kind # "miss"
                        THEN HoverOnHit(hit, clientX, clientY)
                        ELSE /\ hover' = HoverNull
                             /\ pointer' = PointerEvent("move", clientX, clientY,
                                                        hit, 1, FALSE)
                 ELSE /\ hover' = hover
                      /\ pointer' = PointerEvent("move", clientX, clientY, hit, 0,
                                                 FALSE)

\* A pointer-leave handler that reports nothing.
handlePointerLeaveSilent ==
  /\ phase = "ready"
  /\ meshReady
  /\ PointerFrame
  /\ matrixData' = matrixData
  /\ mouse' = mouse
  /\ hover' = hover
  /\ pointer' = PointerEvent("leave", -1, -1, [ kind |-> "miss", id |-> -1 ], 0, FALSE)

\* onPointerLeave={() => onHover?.(null)}
handlePointerLeave ==
  /\ phase = "ready"
  /\ meshReady
  /\ PointerFrame
  /\ matrixData' = matrixData
  /\ mouse' = mouse
  /\ hover' = IF onHover THEN HoverNull ELSE hover
  /\ pointer' = PointerEvent("leave", -1, -1, [ kind |-> "miss", id |-> -1 ],
                             IF onHover THEN 1 ELSE 0, FALSE)

\* ------------------------------------------------------------ specifications

InitFor(shapes, clocks) ==
  /\ \E s \in shapes : rows = s[1] /\ cols = s[2]
  /\ phase = "build"
  /\ row = 0
  /\ col = 0
  /\ matrixData = << >>
  /\ meshReady = FALSE
  /\ currentPattern = "Sequential"
  /\ time \in clocks
  /\ instanceMatrix = << >>
  /\ instanceColor = << >>
  /\ ranPattern = -1
  /\ picked = -1
  /\ published = "none"
  /\ lastPublished = "none"
  /\ hover = HoverUnset
  /\ mouse = << 0, 0 >>
  /\ pointer = NoPointer
  /\ seqTarget = -1
  /\ covered = { }

\* App mounts the scene without onHover.
Init == InitFor(Shapes, {0}) /\ onHover = FALSE

Next ==
  \/ BuildStep
  \/ AttachMesh
  \/ \E d \in Deltas : time + d <= MaxTime /\ Frame(d)

Spec == Init /\ [][Next]_vars

\* Construction of the grid alone, for every shape up to MaxDim x MaxDim.
InitGrid == InitFor(AllShapes, {0}) /\ onHover = FALSE

NextGrid == BuildStep

SpecGrid == InitGrid /\ [][NextGrid]_vars

\* The frame callback at millisecond resolution.  The canvas clock runs from the
\* start of the application and the scene is mounted when the user selects it,
\* so the first frame callback of the scene (with or without the mesh attached)
\* sees any clock time; later callbacks follow at the spacings of FineDeltas.
InitFine == InitFor(FineShapes, {0}) /\ onHover = FALSE

NextFine ==
  \/ BuildStep
  \/ AttachMesh
  \/ \E d \in 1 .. MaxClock : time = 0 /\ Frame(d)
  \/ \E d \in FineDeltas : meshReady /\ time + d <= MaxClock /\ Frame(d)

SpecFine == InitFine /\ [][NextFine]_vars

\* Pointer events between the ticks of a small grid, with and without onHover.
InitPick == InitFor(PickShapes, {0}) /\ onHover \in BOOLEAN

NextPick ==
  \/ BuildStep
  \/ AttachMesh
  \/ \E d \in PickDeltas : time + d <= MaxPickTime /\ Frame(d)
  \/ \E pt \in ClientPoints, hit \in Hits : handlePointerMove(pt[1], pt[2], hit)
  \/ handlePointerLeave

SpecPick == InitPick /\ [][NextPick]_vars

\* Ticks at most 0.1 s apart on a small grid, into the second pattern cycle.
InitSteady == InitFor(SteadyShapes, {0}) /\ onHover = FALSE

NextSteady ==
  \/ BuildStep
  \/ AttachMesh
  \/ \E d \in SteadyDeltas : time + d <= MaxSteadyTime /\ Frame(d)

SpecSteady == InitSteady /\ [][NextSteady]_vars

\* The 24x32 grid under frames 0.2 s apart.
InitCover == InitFor(CoverShapes, {0}) /\ onHover = FALSE

NextCover ==
  \/ BuildStep
  \/ AttachMesh
  \/ \E d \in CoverFirst : time = 0 /\ meshReady /\ Frame(d)
  \/ \E d \in CoverDeltas : time > 0 /\ time + d <= MaxCoverTime /\ Frame(d)

SpecCover == InitCover /\ [][NextCover]_vars

\* ------------------------------------------------------------------ claims

\* The indices of the cells whose isAccessed is true.
Flagged == { i \in 0 .. (Len(matrixData) - 1) : matrixData[i + 1].isAccessed }

\* The latest step executed a tick.
Ticked == ranPattern # -1

\* The pattern window of clock time t: 0 on [0,0.5), 1 on [0.5,1.0), 2 on
\* [1.0,1.5), 3 on [1.5,2.0) of every 2 s cycle.
C1_Window(t) ==
  LET u == t % 2000
  IN  IF u < 500 THEN 0 ELSE IF u < 1000 THEN 1 ELSE IF u < 1500 THEN 2 ELSE 3

\* C1: at every executed tick the branch that runs is floor(2t) mod 4, that is
\* Sequential on [0,0.5), Random on [0.5,1.0), Block on [1.0,1.5) and Stride on
\* [1.5,2.0) of every 2 s cycle, named in that order, and the pattern 2.0 s
\* later is the same.
C1_PatternSchedule ==
  Ticked =>
    /\ ranPattern = C1_Window(time)
    /\ ranPattern = ((2 * time) \div 1000) % 4
    /\ NewPattern(time) =
         << "Sequential", "Random", "Block", "Stride" >>[C1_Window(time) + 1]
    /\ patternIndex(time + 2000) = ranPattern
    /\ NewPattern(time + 2000) = NewPattern(time)

\* A Sequential tick of the second cycle.
C1_Witness == ranPattern = 0 /\ time >= 2000

\* C2: after a Sequential tick at t exactly the cell floor(10t) mod totalCells
\* is flagged, every other cell is not, and the flagged cell's accessTime is t.
C2_SequentialOne ==
  ranPattern = 0 =>
    LET target == ((10 * time) \div 1000) % (rows * cols)
    IN  /\ Flagged = { target }
        /\ matrixData[target + 1].accessTime = time
        /\ matrixData[target + 1].index = target

\* A Sequential tick right after a Stride tick (0.1 s earlier) that flagged a
\* cell which is no longer flagged.
C2_Witness ==
  /\ ranPattern = 0
  /\ time = 2000
  /\ \E k \in DOMAIN matrixData :
       ~matrixData[k].isAccessed /\ matrixData[k].accessTime = time - 100

\* blockIndex = floor(3t) mod (totalCells/16) in sixteenths, and the corner it
\* gives, startCol in quarters: totalCells/16 need not be an integer.
C3_StatedIndex16 == (16 * ((3 * time) \div 1000)) % (rows * cols)

C3_StatedStartRow == (C3_StatedIndex16 \div (4 * cols)) * 4

C3_StatedStartCol4 == C3_StatedIndex16 % (4 * cols)

\* C3 as stated: after a Block tick the flagged cells are exactly the cells
\* inside the 4x4 rectangle whose corner comes from
\* blockIndex = floor(3t) mod (totalCells/16), the corner being integral.
C3_BlockAsStated ==
  ranPattern = 2 =>
    /\ C3_StatedStartCol4 % 4 = 0
    /\ \A k \in DOMAIN matrixData :
         matrixData[k].isAccessed <=>
           /\ matrixData[k].row >= C3_StatedStartRow
           /\ matrixData[k].row < C3_StatedStartRow + 4
           /\ 4 * matrixData[k].col >= C3_StatedStartCol4
           /\ 4 * matrixData[k].col < C3_StatedStartCol4 + 16

\* blockIndex = floor((3t) mod (totalCells/16)) and the corner it gives.
C3_Index == ((48 * time) % (1000 * rows * cols)) \div 16000

C3_StartRow == ((4 * C3_Index) \div cols) * 4

C3_StartCol == (4 * C3_Index) % cols

\* C3, amended: after a Block tick at t, on every grid, the flagged cells are
\* exactly the cells of the grid inside the 4x4 rectangle with the integer
\* corner (startRow, startCol) computed from
\* blockIndex = floor((3t) mod (totalCells/16)); the corner is a cell of the
\* grid, the rectangle has min(4, rows - startRow) * min(4, cols - startCol)
\* cells (16 unless an edge clips it), and each flagged cell has accessTime t.
C3_BlockRectangle ==
  ranPattern = 2 =>
    /\ C3_StartRow \in 0 .. (rows - 1)
    /\ C3_StartCol \in 0 .. (cols - 1)
    /\ Flagged = { r * cols + c :
                     r \in { C3_StartRow + a : a \in 0 .. 3 } \cap (0 .. (rows - 1)),
                     c \in { C3_StartCol + a : a \in 0 .. 3 } \cap (0 .. (cols - 1)) }
    /\ Cardinality(Flagged) =
         Min(4, rows - C3_StartRow) * Min(4, cols - C3_StartCol)
    /\ Cardinality(Flagged) \in 1 .. 16
    /\ (C3_StartRow + 4 <= rows /\ C3_StartCol + 4 <= cols)
          => Cardinality(Flagged) = 16
    /\ \A i \in Flagged : matrixData[i + 1].accessTime = time

\* A Block tick on the 4x8 grid that flags the right-hand block, columns 4..7 of
\* every row: indices 8..11, which follow the block's first row in the array,
\* are not flagged.
C3_Witness ==
  /\ ranPattern = 2
  /\ rows = 4
  /\ cols = 8
  /\ Flagged = { 4, 5, 6, 7, 12, 13, 14, 15, 20, 21, 22, 23, 28, 29, 30, 31 }

\* C4: after a Stride tick at t, with startIndex = floor(8t) mod 4, the flagged
\* cells are exactly the i >= startIndex with (i - startIndex) mod 4 = 0, each
\* with accessTime t; for startIndex 1 and 16 cells they are {1, 5, 9, 13}.
C4_StrideSet ==
  ranPattern = 3 =>
    LET s == ((8 * time) \div 1000) % 4
    IN  /\ Flagged = { i \in 0 .. (rows * cols - 1) : i >= s /\ (i - s) % 4 = 0 }
        /\ \A i \in Flagged : matrixData[i + 1].accessTime = time
        /\ (s = 1 /\ rows * cols = 16) => Flagged = { 1, 5, 9, 13 }

\* The stride example: 16 cells, startIndex 1.
C4_Witness ==
  /\ ranPattern = 3
  /\ rows * cols = 16
  /\ ((8 * time) \div 1000) % 4 = 1
  /\ Flagged = { 1, 5, 9, 13 }

\* A Random tick never clears a flag and changes at most the picked cell, which
\* it flags with accessTime t.
C5_Additive ==
  ranPattern' = 1 =>
    /\ picked' \in -1 .. (rows * cols - 1)
    /\ \A k \in DOMAIN matrixData :
         /\ matrixData[k].isAccessed => matrixData'[k].isAccessed
         /\ matrixData'[k] # matrixData[k] => k - 1 = picked'
    /\ picked' # -1 =>
         /\ matrixData'[picked' + 1].isAccessed
         /\ matrixData'[picked' + 1].accessTime = time'
    /\ DOMAIN matrixData' = DOMAIN matrixData

\* C5 as stated: a Random tick never clears a flag and changes at most the
\* picked cell, which it flags with accessTime t; and the first tick of another
\* pattern after a Random tick leaves none of the cells flagged that were
\* flagged until then.
C5_RandomTrailAsStated ==
  [][ /\ C5_Additive
      /\ (ranPattern = 1 /\ ranPattern' \in { 0, 2, 3 }) =>
           \A k \in DOMAIN matrixData :
             matrixData[k].isAccessed => ~matrixData'[k].isAccessed ]_vars

\* C5, amended: a Random tick never clears a flag and changes at most the picked
\* cell, which it flags with accessTime t; and the first tick of another pattern
\* after a Random tick clears every flag except on the cells that tick itself
\* selects, which get accessTime t of that tick.
C5_RandomTrail ==
  [][ /\ C5_Additive
      /\ (ranPattern = 1 /\ ranPattern' \in { 0, 2, 3 }) =>
           \A k \in DOMAIN matrixData :
             (matrixData[k].isAccessed /\ matrixData'[k].isAccessed)
               => matrixData'[k].accessTime = time' ]_vars

\* A Random tick that picked a cell while a cell flagged earlier is still flagged.
C5_Witness ==
  /\ ranPattern = 1
  /\ picked # -1
  /\ \E k \in DOMAIN matrixData :
       /\ k - 1 # picked
       /\ matrixData[k].isAccessed
       /\ matrixData[k].accessTime < time

\* C6: after an executed tick a cell is flagged only if it is the target of the
\* pattern of that tick: the Sequential index, the cell the Random tick picked,
\* a cell of the block, or a cell of the stride.
C6_OnlyCurrentTargets ==
  Ticked =>
    \A i \in Flagged :
      \/ ranPattern = 0 /\ i = ((10 * time) \div 1000) % (rows * cols)
      \/ ranPattern = 1 /\ i = picked
      \/ ranPattern = 2 /\ i \in { r * cols + c :
                                    r \in C3_StartRow .. (C3_StartRow + 3),
                                    c \in C3_StartCol .. Min(C3_StartCol + 3, cols - 1) }
      \/ ranPattern = 3 /\ i >= (((8 * time) \div 1000) % 4)
                        /\ (i - (((8 * time) \div 1000) % 4)) % 4 = 0

\* The name reported before the latest step: the latest published one, or the
\* initial state when nothing was published yet.
C7_Reported == IF lastPublished = "none" THEN "Sequential" ELSE lastPublished

\* C7: setCurrentPattern is called only with a name that differs from the
\* previously reported one, which is the name of the pattern of that tick; no
\* two consecutive calls carry the same name; a tick whose pattern is that of
\* the tick before it calls nothing.
C7_PublishOnChange ==
  [][ /\ published' # "none" =>
           /\ Ticked'
           /\ published' # C7_Reported'
           /\ published' # lastPublished'
           /\ published' =
                << "Sequential", "Random", "Block", "Stride" >>[C1_Window(time') + 1]
      /\ (Ticked /\ ranPattern' = ranPattern) => published' = "none" ]_vars

\* A second publish: a name was published and another one before it.
C7_Witness == published # "none" /\ lastPublished # "none"

\* C8: the displayed name is "Sequential" until the first executed tick, and
\* after every executed tick at t it is the name of pattern floor(2t) mod 4,
\* the branch that ran.
C8_TitleIsPattern ==
  /\ (instanceColor = << >>) => currentPattern = "Sequential"
  /\ Ticked =>
       /\ currentPattern =
            << "Sequential", "Random", "Block", "Stride" >>[(((2 * time) \div 1000) % 4) + 1]
       /\ currentPattern =
            << "Sequential", "Random", "Block", "Stride" >>[ranPattern + 1]

\* A Sequential tick of the second cycle, the title back to "Sequential" after
\* having shown another name.
C8_Witness ==
  /\ ranPattern = 0
  /\ currentPattern = "Sequential"
  /\ published = "Sequential"

\* C9: the constructed grid has rows*cols cells, the cell at array position i
\* has index = i = row*cols + col with 0 <= row < rows and 0 <= col < cols, and
\* (row, col) -> index is a bijection onto 0 .. rows*cols - 1; while the loops
\* run, the cells pushed so far already satisfy this.
C9_GridBijection ==
  /\ \A i \in 0 .. (Len(matrixData) - 1) :
       LET cell == matrixData[i + 1]
       IN  /\ cell.index = i
           /\ cell.index = cell.row * cols + cell.col
           /\ cell.row \in 0 .. (rows - 1)
           /\ cell.col \in 0 .. (cols - 1)
  /\ phase = "ready" =>
       /\ Len(matrixData) = rows * cols
       /\ { matrixData[k].index : k \in DOMAIN matrixData } = 0 .. (rows * cols - 1)
       /\ \A r \in 0 .. (rows - 1), c \in 0 .. (cols - 1) :
            Cardinality({ k \in DOMAIN matrixData :
                            matrixData[k].row = r /\ matrixData[k].col = c }) = 1
       /\ \A j, k \in DOMAIN matrixData :
            matrixData[j].index = matrixData[k].index => j = k

\* A finished grid with more columns than rows and one with more rows than
\* columns differ in where row 1 starts; this is the finished 3x5 grid.
C9_Witness ==
  /\ phase = "ready"
  /\ rows = 3
  /\ cols = 5
  /\ Len(matrixData) = 15
  /\ matrixData[6].row = 1
  /\ matrixData[6].col = 0

\* The colour mapping as specified, components in 1/10000, ages in ms.
C10_Expected(accessed, age) ==
  IF accessed THEN << 10000, 2000, 2000 >>
  ELSE IF age < 1000 THEN << 10000 - 8 * age, 2000, 2000 + 6 * age >>
  ELSE IF age < 5000
    THEN << 2000, 3000, 8000 - (IF age - 1000 > 4000 THEN 4000 ELSE age - 1000) >>
    ELSE << 3000, 3000, 4000 >>

\* C10: the colour written for a cell at an executed tick, with
\* age = t - accessTime: (1.0, 0.2, 0.2) if accessed; else
\* (1 - 0.8 age, 0.2, 0.2 + 0.6 age) for age < 1;
\* (0.2, 0.3, 0.8 - 0.4 min(1, (age-1)/4)) for 1 <= age < 5; (0.3, 0.3, 0.4) for
\* age >= 5.  Below the boundary age = 1 red and blue differ from their values
\* (0.2, 0.8) at the boundary by 0.8 and 0.6 per second of distance, so they are
\* continuous there, while green steps from 0.2 to 0.3.
C10_ColorMapper ==
  Ticked =>
    /\ Len(instanceColor) = Len(matrixData)
    /\ \A k \in DOMAIN matrixData :
         LET cell == matrixData[k]
             age == time - cell.accessTime
             c == instanceColor[k]
         IN  /\ c = C10_Expected(cell.isAccessed, age)
             /\ (~cell.isAccessed /\ age = 1000) => c = << 2000, 3000, 8000 >>
             /\ (~cell.isAccessed /\ age < 1000) =>
                  /\ c[1] - 2000 = 8 * (1000 - age)
                  /\ 8000 - c[3] = 6 * (1000 - age)
                  /\ c[2] = 2000
             /\ \A j \in 1 .. 3 : c[j] \in 0 .. 10000

\* A cell that is not accessed at exactly age 1.0, written (0.2, 0.3, 0.8).
C10_Witness ==
  /\ Ticked
  /\ \E k \in DOMAIN matrixData :
       /\ ~matrixData[k].isAccessed
       /\ time - matrixData[k].accessTime = 1000
       /\ instanceColor[k] = << 2000, 3000, 8000 >>

\* Helper of C11: the cell at index k was never an access target.  Every tick
\* runs at a clock time above 0, so a target's accessTime is above 0.
C11_NeverAccessed(k) == matrixData[k].accessTime = 0

\* C11: at every executed tick, every cell that is not currently accessed and
\* was not accessed within the last 5 seconds, a never-accessed cell included,
\* is coloured inactive gray (0.3, 0.3, 0.4).
C11_InactiveGray ==
  Ticked =>
    \A k \in 1 .. Len(matrixData) :
      ( /\ ~matrixData[k].isAccessed
        /\ (C11_NeverAccessed(k) \/ time - matrixData[k].accessTime >= 5000) )
        => instanceColor[k] = << 3000, 3000, 4000 >>

\* C12: with a hover callback, a pointer-move whose ray hits instance k with
\* 0 <= k < totalCells reports exactly one result {row: k div cols,
\* col: k mod cols, x, y}, x and y being the event's own screen coordinates.
C12_HitReported ==
  ( /\ onHover
    /\ pointer.kind = "move"
    /\ pointer.hit.kind = "instance"
    /\ pointer.hit.id >= 0
    /\ pointer.hit.id < rows * cols )
    => /\ pointer.calls = 1
       /\ ~pointer.threw
       /\ hover.kind = "cell"
       /\ hover.row = pointer.hit.id \div cols
       /\ hover.col = pointer.hit.id % cols
       /\ hover.x = pointer.x
       /\ hover.y = pointer.y

C12_Witness ==
  /\ onHover
  /\ pointer.kind = "move"
  /\ pointer.hit = [ kind |-> "instance", id |-> 4 ]
  /\ hover = [ kind |-> "cell", row |-> 1, col |-> 1, x |-> 7, y |-> 4 ]
  /\ mouse = << 2, 0 >>

\* Helper of C13: the latest step was a pointer event that hit nothing.
C13_NoIntersection ==
  \/ pointer.kind = "leave"
  \/ pointer.kind = "move" /\ pointer.hit.kind = "miss"

\* C13: with a hover callback, after a pointer-move without intersection or a
\* pointer-leave the picker has reported null once, so the latest hover result
\* is "no hover" and never a cell of an earlier hit.
C13_MissClears ==
  (onHover /\ C13_NoIntersection)
    => /\ pointer.calls = 1
       /\ hover.kind = "null"

C13_Witness ==
  /\ onHover
  /\ pointer.kind = "leave"
  /\ pointer.prev.kind = "cell"
  /\ hover.kind = "null"

\* Helper of C14: the latest step was a pointer-move whose ray hit the mesh at
\* an instance id outside [0, totalCells), or at no instance id.
C14_OutOfRangeHit ==
  /\ pointer.kind = "move"
  /\ \/ pointer.hit.kind = "undefined"
     \/ /\ pointer.hit.kind = "instance"
        /\ (pointer.hit.id < 0 \/ pointer.hit.id >= rows * cols)

\* C14: with a hover callback, an intersection whose instance id is outside
\* [0, totalCells), or missing, is treated as no hit: the picker reports
\* null, clearing the previous hover result, and raises no error.
C14_OutOfRangeClears ==
  (onHover /\ C14_OutOfRangeHit)
    => /\ hover.kind = "null"
       /\ ~pointer.threw

\* C15: a pointer-move or pointer-leave event, anywhere between ticks and with
\* or without a hover callback, changes no cell's isAccessed, accessTime,
\* index, row, col, x, y, z and not the displayed pattern name.
C15_PickingReadsOnly ==
  [][ pointer'.kind # "none"
        => /\ Len(matrixData') = Len(matrixData)
           /\ \A k \in 1 .. Len(matrixData) :
                /\ matrixData'[k].isAccessed = matrixData[k].isAccessed
                /\ matrixData'[k].accessTime = matrixData[k].accessTime
                /\ matrixData'[k].index = matrixData[k].index
                /\ matrixData'[k].row = matrixData[k].row
                /\ matrixData'[k].col = matrixData[k].col
                /\ matrixData'[k].x = matrixData[k].x
                /\ matrixData'[k].y = matrixData[k].y
                /\ matrixData'[k].z = matrixData[k].z
           /\ currentPattern' = currentPattern ]_vars

C15_Witness ==
  /\ onHover
  /\ pointer.kind = "move"
  /\ hover.kind = "cell"
  /\ time = 700
  /\ currentPattern = "Random"
  /\ \E k \in 1 .. Len(matrixData) :
       /\ matrixData[k].isAccessed
       /\ k - 1 # pointer.hit.id

\* C16: a frame callback that fires while the instanced mesh does not exist
\* skips the whole tick: no isAccessed or accessTime changes, no pattern name
\* is published and no buffer is written; a callback with the mesh present
\* runs a tick of the pattern of its clock time.
C16_NotYetReady ==
  [][ time' # time
        => IF meshReady
             THEN /\ ranPattern' = ((2 * time') \div 1000) % 4
                  /\ \A k \in 1 .. Len(matrixData) :
                       matrixData'[k].isAccessed => matrixData'[k].accessTime > 0
             ELSE /\ matrixData' = matrixData
                  /\ currentPattern' = currentPattern
                  /\ published' = "none"
                  /\ instanceMatrix' = instanceMatrix
                  /\ instanceColor' = instanceColor
                  /\ ranPattern' = -1 ]_vars

\* A tick at 0.45 s that ran after the callbacks before it were skipped: no
\* cell carries an access time of an earlier tick.
C16_Witness ==
  /\ Ticked
  /\ time = 450
  /\ \A k \in 1 .. Len(matrixData) : matrixData[k].accessTime \in { 0, 450 }
  /\ \E k \in 1 .. Len(matrixData) : matrixData[k].accessTime = 450

\* C17: on a Random tick that follows an executed tick, a cell is picked
\* exactly when floor(5t) differs from floor(5 * (t - frameDelta)), frameDelta
\* being the time since the previous tick: one pick for each crossing of a
\* multiple of 0.2 s.
C17_GateByFrameDelta ==
  [][ (Ticked /\ time' # time /\ ranPattern' = 1)
        => ( picked' # -1 <=> (5 * time') \div 1000 # (5 * time) \div 1000 ) ]_vars

\* Helper of C18: the cells a Sequential, Block or Stride tick at clock time t
\* leaves flagged on an r x c grid, from r, c and t alone.
C18_Targets(r, c, t) ==
  LET w == ((2 * t) \div 1000) % 4
      b == ((48 * t) % (1000 * r * c)) \div 16000
      br == ((4 * b) \div c) * 4
      bc == (4 * b) % c
      s == ((8 * t) \div 1000) % 4
  IN  IF w = 0 THEN { ((10 * t) \div 1000) % (r * c) }
      ELSE IF w = 2
        THEN { i \in 0 .. (r * c - 1) :
                 /\ i \div c >= br
                 /\ i \div c < br + 4
                 /\ i % c >= bc
                 /\ i % c < bc + 4 }
        ELSE { i \in 0 .. (r * c - 1) : i >= s /\ (i - s) % 4 = 0 }

\* C18: after a Sequential, Block or Stride tick at t the flags of all cells
\* and the displayed pattern name are a function of the grid and t alone,
\* the same after every schedule of earlier ticks.
C18_FrameRateIndependent ==
  (Ticked /\ ranPattern # 1)
    => /\ Flagged = C18_Targets(rows, cols, time)
       /\ currentPattern =
            << "Sequential", "Random", "Block", "Stride" >>
               [(((2 * time) \div 1000) % 4) + 1]

\* A Stride tick at 1.6 s whose only earlier tick ran at 0.1 s, in the
\* Sequential window: that tick's cell 1 is no longer flagged.  The schedule
\* 1.5 s, 1.6 s reaches the same time with another history.
C18_Witness ==
  /\ ranPattern = 3
  /\ time = 1600
  /\ ~matrixData[2].isAccessed
  /\ matrixData[2].accessTime = 100

\* C19: with ticks at most 0.1 s apart, each new cell the Sequential pattern
\* targets has the index of the previously targeted Sequential cell plus 1
\* modulo totalCells, also across the windows of the other three patterns.
C19_SequentialInOrder ==
  [][ (ranPattern' = 0 /\ seqTarget # -1 /\ seqTarget' # seqTarget)
        => seqTarget' = (seqTarget + 1) % (rows * cols) ]_vars

\* Helper of C20: a Block tick at some clock time accesses block b.  Window
\* and block index repeat after BlockCycle ms, so the times below BlockCycle
\* stand for every clock time.
C20_SomeBlockTick(b) ==
  \E u \in 0 .. (BlockCycle - 1) :
    /\ ((2 * u) \div 1000) % 4 = 2
    /\ ((48 * u) % (1000 * rows * cols)) \div 16000 = b

\* C20: on the 24x32 grid every one of the totalCells/16 blocks is eventually
\* the block of a Block tick: at any Block tick, each block either has been
\* the accessed block already or is the block of a Block tick at some clock
\* time.
C20_BlockCoverage ==
  (ranPattern = 2 /\ rows * cols = 768)
    => \A b \in 0 .. ((rows * cols) \div 16 - 1) :
         b \in covered \/ C20_SomeBlockTick(b)

\* C21: with tick times that do not decrease, every cell has
\* 0 <= accessTime <= t for the latest tick time t, so its age t - accessTime
\* is never negative; from one step to the next a cell's accessTime does not
\* decrease, and it changes only in a tick that leaves the cell flagged.
C21_AccessTimeBounds ==
  [][ /\ time' >= time
      /\ \A k \in DOMAIN matrixData' :
           /\ matrixData'[k].accessTime >= 0
           /\ matrixData'[k].accessTime <= time'
           /\ time' - matrixData'[k].accessTime >= 0
      /\ \A k \in DOMAIN matrixData :
           /\ matrixData'[k].accessTime >= matrixData[k].accessTime
           /\ matrixData'[k].accessTime # matrixData[k].accessTime
                => /\ ranPattern' # -1
                   /\ matrixData'[k].isAccessed
                   /\ matrixData'[k].accessTime = time' ]_vars

\* After a tick, one cell keeps the access time of an earlier tick, unflagged,
\* next to a cell flagged at the time of this tick.
C21_Witness ==
  /\ Ticked
  /\ \E k \in DOMAIN matrixData :
       /\ ~matrixData[k].isAccessed
       /\ matrixData[k].accessTime > 0
       /\ matrixData[k].accessTime < time
  /\ \E k \in DOMAIN matrixData :
       /\ matrixData[k].isAccessed
       /\ matrixData[k].accessTime = time

====
